---------------------------- MODULE Spec2Model ----------------------------
(* A model of the kitsune-finance calendar ingestion: the ForexFactory       *)
(* economic-calendar parser (app/jobs/parsers/forexfactory.py), the sync     *)
(* jobs (app/jobs/fetch_calendars.py), the calendar storage queries          *)
(* (app/storage/queries.py) and the sync route (routes/admin.py).            *)
(*                                                                           *)
(* Texts are sequences of one-character strings.  None and the empty text    *)
(* are both the empty sequence: _text returns `t or None` and every reader   *)
(* of a cell text tests it for truthiness only.  A calendar date is a record *)
(* [year, month, day]; an instant is a number of minutes of the proleptic    *)
(* Gregorian calendar in UTC (ordinal day * 1440 + minute of the day).       *)
EXTENDS Integers, Sequences, FiniteSets, TLC

VARIABLES
    today,              \* date.today() of the scan / of the _resolve_date call
    rows,               \* the <tr data-event-id> rows walked so far, document order
    current_date,       \* parse_economic_calendar: current_date
    current_time_str,   \* parse_economic_calendar: current_time_str
    events,             \* parse_economic_calendar: events
    raised,             \* TRUE once _resolve_date raised out of the scan
    dr_month,           \* _resolve_date call: the month written in the raw text
    dr_day,             \* _resolve_date call: the day written in the raw text
    dr_raw,             \* _resolve_date call: the raw text
    dr_out,             \* _resolve_date call: the outcome
    economics_calendar, \* the rows of table economics_calendar, in id order
    last_op,            \* the last storage operation: its input and its outcome
    nops,               \* the number of storage operations so far
    pg_feed,            \* the earnings feed: the rows of its successive pages
    pg_offset,          \* _fetch_earnings_raw: offset
    pg_requests,        \* the offsets of the pages requested so far
    pg_sizes,           \* the sizes of the pages returned so far
    pg_pc,              \* _fetch_earnings_raw: "loop" or "done"
    earnings_calendar,  \* the rows of table earnings_calendar, in id order
    earn_op,            \* the last earnings write or read: its input and its outcome
    runs                \* the POST /admin/sync requests: where each handler is

vars == <<today, rows, current_date, current_time_str, events, raised,
          dr_month, dr_day, dr_raw, dr_out, economics_calendar, last_op, nops,
          pg_feed, pg_offset, pg_requests, pg_sizes, pg_pc,
          earnings_calendar, earn_op, runs>>

-----------------------------------------------------------------------------
(* Texts *)

NoneText == <<>>

Whitespace == {" ", "\t", "\n"}

Digits == <<"0", "1", "2", "3", "4", "5", "6", "7", "8", "9">>

DigitOf == [c \in {Digits[i] : i \in 1..10} |-> (CHOOSE i \in 1..10 : Digits[i] = c) - 1]

IsDigit(c) == c \in DOMAIN DigitOf

DigitVal(c) == DigitOf[c]

UpperLetters == <<"A", "B", "C", "D", "E", "F", "G", "H", "I", "J", "K", "L", "M",
                  "N", "O", "P", "Q", "R", "S", "T", "U", "V", "W", "X", "Y", "Z">>

LowerLetters == <<"a", "b", "c", "d", "e", "f", "g", "h", "i", "j", "k", "l", "m",
                  "n", "o", "p", "q", "r", "s", "t", "u", "v", "w", "x", "y", "z">>

LowerOf == [c \in {UpperLetters[i] : i \in 1..26} |->
               LowerLetters[CHOOSE i \in 1..26 : UpperLetters[i] = c]]

LowerChar(c) == IF c \in DOMAIN LowerOf THEN LowerOf[c] ELSE c

\* str.lower()
Lower(s) == [i \in 1..Len(s) |-> LowerChar(s[i])]

RECURSIVE LStrip(_)
LStrip(s) == IF s # <<>> /\ Head(s) \in Whitespace THEN LStrip(Tail(s)) ELSE s

RECURSIVE RStrip(_)
RStrip(s) ==
    IF s # <<>> /\ s[Len(s)] \in Whitespace THEN RStrip(SubSeq(s, 1, Len(s) - 1)) ELSE s

\* str.strip()
Strip(s) == RStrip(LStrip(s))

\* _text(el): the stripped text content, None (the empty text) when blank
Text(el) == Strip(el)

\* The maximal runs of non-whitespace characters of s from position i on, in
\* order, cur being the run that is open at i.
RECURSIVE TokensFrom(_, _, _)
TokensFrom(s, i, cur) ==
    IF i > Len(s) THEN (IF cur = <<>> THEN <<>> ELSE <<cur>>)
    ELSE IF s[i] \in Whitespace
    THEN (IF cur = <<>> THEN <<>> ELSE <<cur>>) \o TokensFrom(s, i + 1, <<>>)
    ELSE TokensFrom(s, i + 1, Append(cur, s[i]))

Tokens(s) == TokensFrom(s, 1, <<>>)

-----------------------------------------------------------------------------
(* Calendar arithmetic of datetime.date *)

IsLeap(y) == (y % 4 = 0) /\ ((y % 100 # 0) \/ (y % 400 = 0))

DaysInMonth(y, m) ==
    IF m = 2 THEN (IF IsLeap(y) THEN 29 ELSE 28)
    ELSE IF m \in {4, 6, 9, 11} THEN 30 ELSE 31

DaysBeforeYear(y) ==
    LET p == y - 1 IN p * 365 + (p \div 4) - (p \div 100) + (p \div 400)

RECURSIVE DaysBeforeMonth(_, _)
DaysBeforeMonth(y, m) ==
    IF m = 1 THEN 0 ELSE DaysBeforeMonth(y, m - 1) + DaysInMonth(y, m - 1)

\* date.toordinal(): 0001-01-01 is day 1
Ordinal(d) == DaysBeforeYear(d.year) + DaysBeforeMonth(d.year, d.month) + d.day

Date(y, m, d) == [year |-> y, month |-> m, day |-> d]

IsValidDate(y, m, d) == m \in 1..12 /\ d >= 1 /\ d <= DaysInMonth(y, m)

\* date.weekday(): Monday is 0
Weekday(d) == (Ordinal(d) + 6) % 7


-----------------------------------------------------------------------------
(* datetime.strptime, for the three formats the parser uses *)

WeekdayNames == { <<"m", "o", "n">>, <<"t", "u", "e">>, <<"w", "e", "d">>,
                  <<"t", "h", "u">>, <<"f", "r", "i">>, <<"s", "a", "t">>,
                  <<"s", "u", "n">> }

MonthNames == << <<"j", "a", "n">>, <<"f", "e", "b">>, <<"m", "a", "r">>,
                 <<"a", "p", "r">>, <<"m", "a", "y">>, <<"j", "u", "n">>,
                 <<"j", "u", "l">>, <<"a", "u", "g">>, <<"s", "e", "p">>,
                 <<"o", "c", "t">>, <<"n", "o", "v">>, <<"d", "e", "c">> >>

\* %d: 3[0-1] | [1-2]\d | 0[1-9] | [1-9], the whole token
MatchesDay(t) ==
    \/ Len(t) = 1 /\ IsDigit(t[1]) /\ t[1] # "0"
    \/ /\ Len(t) = 2 /\ IsDigit(t[1]) /\ IsDigit(t[2])
       /\ \/ t[1] = "3" /\ t[2] \in {"0", "1"}
          \/ t[1] \in {"1", "2"}
          \/ t[1] = "0" /\ t[2] # "0"

NumberOf(t) == IF Len(t) = 1 THEN DigitVal(t[1]) ELSE 10 * DigitVal(t[1]) + DigitVal(t[2])

\* datetime.strptime(raw, "%a %b %d").date(): the year defaults to 1900, the
\* weekday name is matched and not compared with the date, and a day the month
\* does not have in 1900 (February 29 among them) is a ValueError.
StrptimeDate(raw) ==
    LET toks == Tokens(Lower(raw))
        matches == /\ Len(toks) = 3
                   /\ toks[1] \in WeekdayNames
                   /\ \E m \in 1..12 : MonthNames[m] = toks[2]
                   /\ MatchesDay(toks[3])
        mon == CHOOSE m \in 1..12 : MonthNames[m] = toks[2]
    IN  IF matches /\ IsValidDate(1900, mon, NumberOf(toks[3]))
        THEN [ok |-> TRUE, year |-> 1900, month |-> mon, day |-> NumberOf(toks[3])]
        ELSE [ok |-> FALSE, year |-> 0, month |-> 0, day |-> 0]

\* %I: 1[0-2] | 0[1-9] | [1-9], the whole text before the colon
MatchesHour(t) ==
    \/ Len(t) = 1 /\ IsDigit(t[1]) /\ t[1] # "0"
    \/ /\ Len(t) = 2
       /\ \/ t[1] = "1" /\ t[2] \in {"0", "1", "2"}
          \/ t[1] = "0" /\ IsDigit(t[2]) /\ t[2] # "0"

AmPm == { <<"a", "m">>, <<"p", "m">> }

\* datetime.strptime(raw, fmt).time() for fmt "%I:%M%p" (spaced = FALSE) and
\* "%I:%M %p" (spaced = TRUE, the blank of the format matching \s+); the result
\* is the minute of the day, ok = FALSE standing for the ValueError.
StrptimeTime(raw, spaced) ==
    LET fail == [ok |-> FALSE, minute |-> 0]
        hasColon == \E i \in 1..Len(raw) : raw[i] = ":"
        c == CHOOSE i \in 1..Len(raw) : raw[i] = ":" /\ \A j \in 1..(i - 1) : raw[j] # ":"
        hourTxt == SubSeq(raw, 1, c - 1)
        rest == SubSeq(raw, c + 1, Len(raw))
        two == Len(rest) >= 2 /\ rest[1] \in {"0", "1", "2", "3", "4", "5"} /\ IsDigit(rest[2])
        one == Len(rest) >= 1 /\ IsDigit(rest[1])
        minTxt == IF two THEN SubSeq(rest, 1, 2) ELSE SubSeq(rest, 1, 1)
        tail == SubSeq(rest, Len(minTxt) + 1, Len(rest))
        suffix == IF spaced THEN LStrip(tail) ELSE tail
        sepOk == IF spaced THEN tail # <<>> /\ tail[1] \in Whitespace ELSE TRUE
        h12 == NumberOf(hourTxt)
        hour == IF suffix = <<"a", "m">>
                THEN (IF h12 = 12 THEN 0 ELSE h12)
                ELSE (IF h12 = 12 THEN 12 ELSE h12 + 12)
    IN  IF ~hasColon THEN fail
        ELSE IF ~MatchesHour(hourTxt) THEN fail
        ELSE IF ~(two \/ one) THEN fail
        ELSE IF ~(sepOk /\ suffix \in AmPm) THEN fail
        ELSE [ok |-> TRUE, minute |-> hour * 60 + NumberOf(minTxt)]

-----------------------------------------------------------------------------
(* forexfactory.py *)

NoneDate == [year |-> 0, month |-> 0, day |-> 0]

NoneInstant == -1

\* _resolve_date with the first threshold read as "delta >= 90"
ResolveDateFrom90(raw, td) ==
    LET parsed == StrptimeDate(raw)
        candidate == Date(td.year, parsed.month, parsed.day)
        delta == Ordinal(candidate) - Ordinal(td)
    IN  IF ~parsed.ok
        THEN [status |-> "ValueError", date |-> NoneDate]
        ELSE IF delta >= 90
        THEN [status |-> "ok", date |-> Date(td.year - 1, parsed.month, parsed.day)]
        ELSE IF delta < -270
        THEN [status |-> "ok", date |-> Date(td.year + 1, parsed.month, parsed.day)]
        ELSE [status |-> "ok", date |-> candidate]

\* _resolve_date(raw) with date.today() = td
ResolveDate(raw, td) ==
    LET parsed == StrptimeDate(raw)
        candidate == Date(td.year, parsed.month, parsed.day)
        delta == Ordinal(candidate) - Ordinal(td)
    IN  IF ~parsed.ok
        THEN [status |-> "ValueError", date |-> NoneDate]
        ELSE IF delta > 90
        THEN [status |-> "ok", date |-> Date(td.year - 1, parsed.month, parsed.day)]
        ELSE IF delta < -270
        THEN [status |-> "ok", date |-> Date(td.year + 1, parsed.month, parsed.day)]
        ELSE [status |-> "ok", date |-> candidate]

\* _parse_time(raw): None is ok = FALSE
ParseTime(raw) ==
    LET low == Lower(Strip(raw))
        first == StrptimeTime(low, FALSE)
        second == StrptimeTime(low, TRUE)
    IN  IF raw = NoneText THEN [ok |-> FALSE, minute |-> 0]
        ELSE IF first.ok THEN first
        ELSE IF second.ok THEN second
        ELSE [ok |-> FALSE, minute |-> 0]

\* The last Sunday of month m (31 days long) of year y.
LastSunday(y, m) == 31 - ((Weekday(Date(y, m, 31)) + 1) % 7)

\* the offset of Central European standard time at every date
CetOffsetFixed(d, minute) == 60

\* ZoneInfo("Europe/Berlin").utcoffset() of the wall time (d, minute), fold = 0,
\* in minutes: daylight-saving time runs from 03:00 wall time of the last Sunday
\* of March up to 03:00 wall time of the last Sunday of October; a wall time in
\* the gap takes the offset before the transition, a repeated one the first.
CetOffset(d, minute) ==
    LET wall == Ordinal(d) * 1440 + minute
        begin == Ordinal(Date(d.year, 3, LastSunday(d.year, 3))) * 1440 + 180
        finish == Ordinal(Date(d.year, 10, LastSunday(d.year, 10))) * 1440 + 180
    IN  IF wall >= begin /\ wall < finish THEN 120 ELSE 60

\* datetime.combine(d, time.min, tzinfo=timezone.utc)
MidnightUtc(d) == Ordinal(d) * 1440

\* the conversion with the offset applied in the wrong direction
CetToUtcAdded(d, minute) == Ordinal(d) * 1440 + minute + CetOffset(d, minute)

\* datetime.combine(d, t, tzinfo=_CET).astimezone(timezone.utc)
CetToUtc(d, minute) == Ordinal(d) * 1440 + minute - CetOffset(d, minute)

\* lines 132-135 taken for the empty text only: a text that is no clock time
\* leaves the event without an instant
BuildDatetimeStrict(cur_date, cur_time_str) ==
    LET parsed_time == ParseTime(cur_time_str)
    IN  IF cur_date = NoneDate
        THEN [date |-> NoneInstant, is_all_day |-> FALSE]
        ELSE IF cur_time_str = NoneText
        THEN [date |-> MidnightUtc(cur_date), is_all_day |-> TRUE]
        ELSE IF ~parsed_time.ok
        THEN [date |-> NoneInstant, is_all_day |-> FALSE]
        ELSE [date |-> CetToUtc(cur_date, parsed_time.minute), is_all_day |-> FALSE]

\* forexfactory.py 127-138: the event's (instant, is_all_day)
BuildDatetime(cur_date, cur_time_str) ==
    LET parsed_time == ParseTime(cur_time_str)
    IN  IF cur_date = NoneDate
        THEN [date |-> NoneInstant, is_all_day |-> FALSE]
        ELSE IF ~parsed_time.ok
        THEN [date |-> MidnightUtc(cur_date), is_all_day |-> TRUE]
        ELSE [date |-> CetToUtc(cur_date, parsed_time.minute), is_all_day |-> FALSE]

\* datetime.date() of an instant, as an ordinal day
InstantDay(i) == i \div 1440

InstantMinute(i) == i % 1440


\* forexfactory.py 28-35: _impact_label(td); a td is the sequence of its spans, a
\* span the sequence of its classes, a class name the sequence of its parts
\* between "-" ("icon--ff-impact-red" is <<"icon", "", "ff", "impact", "red">>).
IsImpactClass(cls) ==
    Len(cls) >= 5 /\ SubSeq(cls, 1, 4) = <<"icon", "", "ff", "impact">>

ImpactMap(suffix) ==
    CASE suffix = "red" -> <<"H", "i", "g", "h">>
      [] suffix = "ora" -> <<"M", "e", "d", "i", "u", "m">>
      [] suffix = "yel" -> <<"L", "o", "w">>
      [] suffix = "gra" -> <<"N", "o", "n", "-", "E", "c", "o", "n", "o", "m", "i", "c">>
      [] OTHER -> NoneText

RECURSIVE ImpactLabel(_)
ImpactLabel(td) ==
    IF td = <<>> THEN NoneText
    ELSE LET span == Head(td)
             hit == \E i \in 1..Len(span) : IsImpactClass(span[i])
             first == CHOOSE i \in 1..Len(span) :
                         /\ IsImpactClass(span[i])
                         /\ \A j \in 1..(i - 1) : ~IsImpactClass(span[j])
         IN  IF hit
             THEN (IF Len(span[first]) = 5 THEN ImpactMap(span[first][5]) ELSE NoneText)
             ELSE ImpactLabel(Tail(td))

\* _text(els[0]) if els else None, for the result els of row.find_class(...)
CellText(els) == IF els # <<>> THEN Text(els[1]) ELSE NoneText

\* forexfactory.py 96-100: the date of the row, given its raw date text
NextDate(raw, resolved, cur_date) == IF raw # NoneText THEN resolved ELSE cur_date

\* line 101 left out: the carried time survives a new date
CarriedTimeKept(raw, cur_time_str) == cur_time_str

\* forexfactory.py 99-101: the carried time text after the date cell was read
CarriedTime(raw, cur_time_str) == IF raw # NoneText THEN NoneText ELSE cur_time_str

\* the time cell read without the carry-over of line 103
NextTimeOwn(t, carried) == t

\* forexfactory.py 104-108: the time text of the row, given its time cell text
NextTime(t, carried) == IF t # NoneText THEN t ELSE carried

\* forexfactory.py 94-151: one iteration of the loop over the rows, from the
\* state st = [current_date, current_time_str]; raised = TRUE when _resolve_date
\* raises ValueError, which nothing in parse_economic_calendar catches.
ParseRow(st, row, td) ==
    LET raw == CellText(row.date_td)
        resolved == ResolveDate(raw, td)
        failed == raw # NoneText /\ resolved.status = "ValueError"
        date1 == NextDate(raw, resolved.date, st.current_date)
        time1 == NextTime(CellText(row.time_td), CarriedTime(raw, st.current_time_str))
        dt == BuildDatetime(date1, time1)
    IN  [raised |-> failed,
         current_date |-> date1,
         current_time_str |-> time1,
         event |-> [date |-> dt.date,
                    is_all_day |-> dt.is_all_day,
                    currency |-> CellText(row.cur_td),
                    impact |-> IF row.imp_td # <<>> THEN ImpactLabel(row.imp_td[1]) ELSE NoneText,
                    event |-> CellText(row.title_spans),
                    actual |-> CellText(row.actual_td),
                    forecast |-> CellText(row.forecast_td),
                    previous |-> CellText(row.previous_td)]]

\* parse_economic_calendar(raw_html) on the identified rows rws, as a whole:
\* [raised, events], the events being returned only when raised = FALSE.
RECURSIVE ScanRows(_, _, _, _)
ScanRows(rws, st, evs, td) ==
    IF rws = <<>> THEN [raised |-> FALSE, events |-> evs]
    ELSE LET r == ParseRow(st, Head(rws), td)
         IN  IF r.raised THEN [raised |-> TRUE, events |-> <<>>]
             ELSE ScanRows(Tail(rws),
                           [current_date |-> r.current_date,
                            current_time_str |-> r.current_time_str],
                           Append(evs, r.event), td)

ParseEconomicCalendar(rws, td) ==
    ScanRows(rws, [current_date |-> NoneDate, current_time_str |-> NoneText], <<>>, td)

-----------------------------------------------------------------------------
(* fetch_calendars.py: the economics sync; queries.py: the economics table *)

\* SQL NULL, and None as a value of an event dict
Null == NoneText

NoneDay == NoneInstant

\* ev.get(k)
Get(ev, k) == IF k \in DOMAIN ev THEN ev[k] ELSE Null

\* the column taken from the incoming row whatever it is
CoalesceIncoming(new, old) == new

\* COALESCE(EXCLUDED.c, economics_calendar.c)
Coalesce(new, old) == IF new # Null THEN new ELSE old

\* queries.py 293-314: INSERT ... ON CONFLICT (day, event) DO UPDATE SET ...;
\* a new row takes the next id, which is its position in the table.
Upsert(table, day, ev) ==
    LET name == Get(ev, "event")
        conflict(r) == r.day = day /\ r.event = name
    IN  IF \E i \in 1..Len(table) : conflict(table[i])
        THEN [i \in 1..Len(table) |->
                 IF conflict(table[i])
                 THEN [table[i] EXCEPT
                          !.time = Coalesce(Get(ev, "time"), @),
                          !.currency = Coalesce(Get(ev, "currency"), @),
                          !.impact = Coalesce(Get(ev, "impact"), @),
                          !.actual = Coalesce(Get(ev, "actual"), @),
                          !.forecast = Coalesce(Get(ev, "forecast"), @),
                          !.previous = Coalesce(Get(ev, "previous"), @)]
                 ELSE table[i]]
        ELSE Append(table, [day |-> day,
                            time |-> Get(ev, "time"),
                            currency |-> Get(ev, "currency"),
                            impact |-> Get(ev, "impact"),
                            event |-> name,
                            actual |-> Get(ev, "actual"),
                            forecast |-> Get(ev, "forecast"),
                            previous |-> Get(ev, "previous")])

\* queries.py 289-314: the events of one day, acc = [table, statements, failed];
\* the statement numbered fail_at is the one the database fails (0: none).
RECURSIVE WriteDay(_, _, _, _)
WriteDay(acc, day, evs, fail_at) ==
    IF evs = <<>> \/ acc.failed THEN acc
    ELSE IF Get(Head(evs), "event") = Null
    THEN WriteDay(acc, day, Tail(evs), fail_at)
    ELSE IF acc.statements + 1 = fail_at
    THEN [acc EXCEPT !.statements = @ + 1, !.failed = TRUE]
    ELSE WriteDay([acc EXCEPT !.table = Upsert(@, day, Head(evs)), !.statements = @ + 1],
                  day, Tail(evs), fail_at)

\* queries.py 288: for day, events in data.items(); data is the sequence of its
\* items [day, events] in insertion order
RECURSIVE WriteDays(_, _, _)
WriteDays(acc, data, fail_at) ==
    IF data = <<>> \/ acc.failed THEN acc
    ELSE WriteDays(WriteDay(acc, Head(data).day, Head(data).events, fail_at),
                   Tail(data), fail_at)

\* write_economics_calendar(data) on the table: one transaction, rolled back
\* when a statement fails, the error then leaving the function
WriteEconomicsCalendar(table, data, fail_at) ==
    LET r == WriteDays([table |-> table, statements |-> 0, failed |-> FALSE], data, fail_at)
    IN  IF r.failed
        THEN [table |-> table, raised |-> TRUE, statements |-> r.statements]
        ELSE [table |-> r.table, raised |-> FALSE, statements |-> r.statements]

\* _parse_day(val) of an instant or None
ParseDay(val) == IF val = NoneInstant THEN NoneDay ELSE InstantDay(val)

\* by_day[day] = [ev]
SetItem(by_day, day, ev) ==
    IF \E i \in 1..Len(by_day) : by_day[i].day = day
    THEN [i \in 1..Len(by_day) |->
             IF by_day[i].day = day
             THEN [by_day[i] EXCEPT !.events = <<ev>>]
             ELSE by_day[i]]
    ELSE Append(by_day, [day |-> day, events |-> <<ev>>])

\* by_day.setdefault(day, []).append(ev)
SetDefaultAppend(by_day, day, ev) ==
    IF \E i \in 1..Len(by_day) : by_day[i].day = day
    THEN [i \in 1..Len(by_day) |->
             IF by_day[i].day = day
             THEN [by_day[i] EXCEPT !.events = Append(@, ev)]
             ELSE by_day[i]]
    ELSE Append(by_day, [day |-> day, events |-> <<ev>>])

\* fetch_calendars.py 137-142
RECURSIVE ByDay(_, _)
ByDay(evs, by_day) ==
    IF evs = <<>> THEN by_day
    ELSE IF ParseDay(Head(evs).date) = NoneDay THEN ByDay(Tail(evs), by_day)
    ELSE ByDay(Tail(evs), SetDefaultAppend(by_day, ParseDay(Head(evs).date), Head(evs)))

\* the status check of line 122 left out
FetchEconomicsRawAnyStatus(fetch, td) ==
    IF fetch.raises THEN [raised |-> TRUE, events |-> <<>>]
    ELSE IF fetch.tables = <<>> THEN [raised |-> TRUE, events |-> <<>>]
    ELSE ParseEconomicCalendar(fetch.tables[1], td)

\* _fetch_economics_raw(): fetch = [raises, status, tables] is what curl.get
\* does (raises) or returns (status code, the calendar__table elements of the
\* body, each the sequence of its identified rows)
FetchEconomicsRaw(fetch, td) ==
    IF fetch.raises THEN [raised |-> TRUE, events |-> <<>>]
    ELSE IF fetch.status # 200 THEN [raised |-> FALSE, events |-> <<>>]
    ELSE IF fetch.tables = <<>> THEN [raised |-> TRUE, events |-> <<>>]
    ELSE ParseEconomicCalendar(fetch.tables[1], td)

\* fetch_calendars.py 132-147: sync_economics_calendar() once the fetch has
\* raised or returned its events (got), w being what the write of by_day does
SyncAfterFetch(table, got, by_day, w) ==
    IF got.raised
    THEN [table |-> table, outcome |-> "error", by_day |-> <<>>,
          statements |-> 0, raised |-> FALSE]
    ELSE IF got.events = <<>>
    THEN [table |-> table, outcome |-> "empty", by_day |-> <<>>,
          statements |-> 0, raised |-> FALSE]
    ELSE [table |-> w.table, outcome |-> IF w.raised THEN "error" ELSE "ok",
          by_day |-> by_day, statements |-> w.statements, raised |-> FALSE]

SyncWrite(table, got, by_day, fail_at) ==
    SyncAfterFetch(table, got, by_day, WriteEconomicsCalendar(table, by_day, fail_at))

SyncFetched(table, got, fail_at) ==
    SyncWrite(table, got, ByDay(got.events, <<>>), fail_at)

\* sync_economics_calendar(): [table, outcome, by_day, statements, raised], the
\* exception of any step being caught and logged
SyncEconomicsCalendar(table, fetch, fail_at, td) ==
    SyncFetched(table, FetchEconomicsRaw(fetch, td), fail_at)

-----------------------------------------------------------------------------
(* queries.py: the earnings table; fetch_calendars.py: the earnings sync *)

\* item.get("date"), an instant or None
GetDate(item) == IF "date" \in DOMAIN item THEN item.date ELSE NoneInstant

\* _to_datetime(val) of None or of a datetime (the feed gives timestamps)
ToDatetime(val) == IF val = NoneInstant THEN NoneInstant ELSE val

\* _to_float(val): None for None and for a text float() rejects; the numbers
\* are written in digits
ToFloat(val) ==
    IF val # Null /\ \A i \in 1..Len(val) : IsDigit(val[i]) THEN val ELSE Null

\* queries.py 224-249: INSERT INTO earnings_calendar ... ON CONFLICT (symbol,
\* date) DO UPDATE SET ...; two NULL dates do not conflict.  A new row takes
\* the next id, which is its position in the table.
UpsertEarnings(table, day, company, item) ==
    LET dt == ToDatetime(GetDate(item))
        symbol == Get(item, "symbol")
        conflict(r) == r.symbol = symbol /\ dt # NoneInstant /\ r.date = dt
    IN  IF \E i \in 1..Len(table) : conflict(table[i])
        THEN [i \in 1..Len(table) |->
                 IF conflict(table[i])
                 THEN [table[i] EXCEPT
                          !.day = day,
                          !.company = company,
                          !.marketcap = Coalesce(ToFloat(Get(item, "marketcap")), @),
                          !.event_name = Coalesce(Get(item, "event_name"), @),
                          !.timing = Coalesce(Get(item, "timing"), @),
                          !.eps_estimate = Coalesce(ToFloat(Get(item, "eps_estimate")), @),
                          !.reported_eps = Coalesce(ToFloat(Get(item, "reported_eps")), @),
                          !.surprise_pct = Coalesce(ToFloat(Get(item, "surprise_pct")), @)]
                 ELSE table[i]]
        ELSE Append(table, [day |-> day,
                            company |-> company,
                            symbol |-> symbol,
                            marketcap |-> ToFloat(Get(item, "marketcap")),
                            event_name |-> Get(item, "event_name"),
                            date |-> dt,
                            timing |-> Get(item, "timing"),
                            eps_estimate |-> ToFloat(Get(item, "eps_estimate")),
                            reported_eps |-> ToFloat(Get(item, "reported_eps")),
                            surprise_pct |-> ToFloat(Get(item, "surprise_pct"))])

\* queries.py 223: for item in items
RECURSIVE WriteItems(_, _, _, _, _)
WriteItems(acc, day, company, items, fail_at) ==
    IF items = <<>> \/ acc.failed THEN acc
    ELSE IF acc.statements + 1 = fail_at
    THEN [acc EXCEPT !.statements = @ + 1, !.failed = TRUE]
    ELSE WriteItems([acc EXCEPT !.table = UpsertEarnings(@, day, company, Head(items)),
                                !.statements = @ + 1],
                    day, company, Tail(items), fail_at)

\* queries.py 222: for company, items in companies.items()
RECURSIVE WriteCompanies(_, _, _, _)
WriteCompanies(acc, day, companies, fail_at) ==
    IF companies = <<>> \/ acc.failed THEN acc
    ELSE WriteCompanies(WriteItems(acc, day, Head(companies).company,
                                   Head(companies).items, fail_at),
                        day, Tail(companies), fail_at)

\* queries.py 221: for day, companies in data.items()
RECURSIVE WriteEarningsDays(_, _, _)
WriteEarningsDays(acc, data, fail_at) ==
    IF data = <<>> \/ acc.failed THEN acc
    ELSE WriteEarningsDays(WriteCompanies(acc, Head(data).day, Head(data).companies, fail_at),
                           Tail(data), fail_at)

\* write_earnings_calendar(data) on the table: one transaction, rolled back
\* when a statement fails, the error then leaving the function
WriteEarningsCalendar(table, data, fail_at) ==
    LET r == WriteEarningsDays([table |-> table, statements |-> 0, failed |-> FALSE],
                               data, fail_at)
    IN  IF r.failed
        THEN [table |-> table, raised |-> TRUE, statements |-> r.statements]
        ELSE [table |-> r.table, raised |-> FALSE, statements |-> r.statements]

-----------------------------------------------------------------------------
(* The inputs of the row scan *)

MaxRows == 3

DateCellSamples ==
    { <<>>,
      << <<"W", "e", "d", " ", "D", "e", "c", " ", "3", "1">> >>,
      << <<"T", "h", "u", " ", "J", "a", "n", " ", "1">> >>,
      << <<"T", "o", "d", "a", "y">> >> }

TimeCellSamples ==
    { << <<" ">> >>,
      << <<"A", "l", "l", " ", "D", "a", "y">> >>,
      << <<"1", "2", ":", "3", "0", "a", "m">> >>,
      << <<"1", "1", ":", "3", "0", "p", "m">> >> }

RowSamples ==
    { [date_td |-> d, time_td |-> t,
       cur_td |-> << <<"U", "S", "D">> >>,
       imp_td |-> << << << <<"icon">>, <<"icon", "", "ff", "impact", "red">> >> >> >>,
       title_spans |-> << <<"C", "P", "I">> >>,
       actual_td |-> << <<" ">> >>,
       forecast_td |-> <<>>,
       previous_td |-> << <<"1">> >>] : d \in DateCellSamples, t \in TimeCellSamples }

ScanTodays == { Date(2025, 12, 30), Date(2025, 10, 1) }

-----------------------------------------------------------------------------
(* Spec: parse_economic_calendar walking a table row by row *)

dateVars == <<dr_month, dr_day, dr_raw, dr_out>>

scanVars == <<today, rows, current_date, current_time_str, events, raised>>

storeVars == <<economics_calendar, last_op, nops>>

pageVars == <<pg_feed, pg_offset, pg_requests, pg_sizes, pg_pc>>

earnVars == <<earnings_calendar, earn_op>>

runVars == <<runs>>

NoFetch == [raises |-> FALSE, status |-> 0, tables |-> <<>>]

NoOp == [op |-> "none", data |-> <<>>, fetch |-> NoFetch, fail_at |-> 0,
         outcome |-> "none", statements |-> 0, raised |-> FALSE]

StoreIdle ==
    /\ economics_calendar = <<>>
    /\ last_op = NoOp
    /\ nops = 0

NoEarnOp == [op |-> "none", data |-> <<>>, fail_at |-> 0, start |-> NoneDay,
             end |-> NoneDay, outcome |-> "none", result |-> <<>>]

EarnIdle ==
    /\ earnings_calendar = <<>>
    /\ earn_op = NoEarnOp

RunsIdle == runs = <<>>

PageIdle ==
    /\ pg_feed = 0
    /\ pg_offset = 0
    /\ pg_requests = <<>>
    /\ pg_sizes = <<>>
    /\ pg_pc = "idle"

DateIdle ==
    /\ dr_month = 0
    /\ dr_day = 0
    /\ dr_raw = NoneText
    /\ dr_out = [status |-> "idle", date |-> NoneDate]

Init ==
    /\ today \in ScanTodays
    /\ rows = <<>>
    /\ current_date = NoneDate
    /\ current_time_str = NoneText
    /\ events = <<>>
    /\ raised = FALSE
    /\ DateIdle
    /\ StoreIdle
    /\ PageIdle
    /\ EarnIdle
    /\ RunsIdle

\* forexfactory.py 94-151: the loop body on the next row of the document, the
\* row being one of `samples` and the document at most `limit` rows long
ScanFrom(samples, limit) ==
    /\ ~raised
    /\ Len(rows) < limit
    /\ \E row \in samples :
          \E r \in {ParseRow([current_date |-> current_date,
                             current_time_str |-> current_time_str], row, today)} :
              /\ rows' = Append(rows, row)
              /\ raised' = r.raised
              /\ current_date' = IF r.raised THEN current_date ELSE r.current_date
              /\ current_time_str' = IF r.raised THEN current_time_str ELSE r.current_time_str
              /\ events' = IF r.raised THEN events ELSE Append(events, r.event)
    /\ UNCHANGED <<today, dateVars, storeVars, pageVars, earnVars, runVars>>

ScanRow == ScanFrom(RowSamples, MaxRows)

Next == ScanRow

Spec == Init /\ [][Next]_vars


-----------------------------------------------------------------------------
(* SpecDate: one call of _resolve_date, for every today and every date text *)

MonthLabels == << <<"J", "a", "n">>, <<"F", "e", "b">>, <<"M", "a", "r">>,
                  <<"A", "p", "r">>, <<"M", "a", "y">>, <<"J", "u", "n">>,
                  <<"J", "u", "l">>, <<"A", "u", "g">>, <<"S", "e", "p">>,
                  <<"O", "c", "t">>, <<"N", "o", "v">>, <<"D", "e", "c">> >>

\* The date cell "Mon <month> <dd>" as the site prints it.
DateCell(m, d) ==
    <<"M", "o", "n", " ">> \o MonthLabels[m] \o <<" ", Digits[(d \div 10) + 1], Digits[(d % 10) + 1]>>

DateTodays ==
    { Date(y, m, d) : y \in {2024, 2025}, m \in 1..12, d \in 1..31 } \cap
    { dt \in [year : {2024, 2025}, month : 1..12, day : 1..31] :
         IsValidDate(dt.year, dt.month, dt.day) }

ScanIdle ==
    /\ rows = <<>>
    /\ current_date = NoneDate
    /\ current_time_str = NoneText
    /\ events = <<>>
    /\ raised = FALSE

InitDate ==
    /\ today \in DateTodays
    /\ dr_month \in 1..12
    /\ dr_day \in 1..31
    /\ dr_raw = DateCell(dr_month, dr_day)
    /\ dr_out = [status |-> "pending", date |-> NoneDate]
    /\ ScanIdle
    /\ StoreIdle
    /\ PageIdle
    /\ EarnIdle
    /\ RunsIdle

\* forexfactory.py 98-100: raw = _text(date_td[0]); _resolve_date(raw)
ResolveDateCall ==
    /\ dr_out.status = "pending"
    /\ dr_out' = ResolveDate(Text(dr_raw), today)
    /\ UNCHANGED <<today, rows, current_date, current_time_str, events, raised,
                   dr_month, dr_day, dr_raw, storeVars, pageVars, earnVars, runVars>>

DateNext == ResolveDateCall

SpecDate == InitDate /\ [][DateNext]_vars


-----------------------------------------------------------------------------
(* Properties of _resolve_date (SpecDate) *)

DaysBefore == <<0, 31, 59, 90, 120, 151, 181, 212, 243, 273, 304, 334>>

\* The day of the year of month m, day d in year y, counted from a table.
YearDay(y, m, d) == DaysBefore[m] + d + (IF IsLeap(y) /\ m > 2 THEN 1 ELSE 0)

DateCallDone == dr_out.status \in {"ok", "ValueError"}

\* C3: for every today and every month/day the text parses to, the result is
\* that month/day in today's year - 1 when the same-year candidate lies more
\* than 90 days after today, in today's year + 1 when it lies more than 270
\* days before today, and in today's year otherwise (90 and -270 included);
\* "Mon Jan 05" read on December 28 is January 5 of the next year.
YearInference ==
    (DateCallDone /\ IsValidDate(1900, dr_month, dr_day)) =>
        LET delta == YearDay(today.year, dr_month, dr_day)
                        - YearDay(today.year, today.month, today.day)
            y == IF delta > 90 THEN today.year - 1
                 ELSE IF delta < -270 THEN today.year + 1
                 ELSE today.year
        IN  /\ dr_out = [status |-> "ok", date |-> Date(y, dr_month, dr_day)]
            /\ (today.month = 12 /\ today.day = 28 /\ dr_month = 1 /\ dr_day = 5)
                  => dr_out.date = Date(today.year + 1, 1, 5)

YearInferenceWitness ==
    /\ today = Date(2025, 12, 28)
    /\ dr_raw = <<"M", "o", "n", " ", "J", "a", "n", " ", "0", "5">>
    /\ dr_out = [status |-> "ok", date |-> Date(2026, 1, 5)]


-----------------------------------------------------------------------------
(* Properties of the row scan (Spec).  While the scan has not raised, *)
(* events[i] is the event of rows[i].                                  *)

DateText(i) == CellText(rows[i].date_td)

TimeText(i) == CellText(rows[i].time_td)

\* The most recent row up to i with a non-empty date cell, 0 when there is none.
LastDateRow(i) ==
    IF \E j \in 1..i : DateText(j) # NoneText
    THEN CHOOSE j \in 1..i :
            /\ DateText(j) # NoneText
            /\ \A k \in (j + 1)..i : DateText(k) = NoneText
    ELSE 0

\* The most recent row up to i, of the same day, with a non-empty time cell.
LastTimeRow(i) ==
    LET from == IF LastDateRow(i) = 0 THEN 1 ELSE LastDateRow(i)
    IN  IF \E j \in from..i : TimeText(j) # NoneText
        THEN CHOOSE j \in from..i :
                /\ TimeText(j) # NoneText
                /\ \A k \in (j + 1)..i : TimeText(k) = NoneText
        ELSE 0

\* The day of row i: the resolved date of the most recent date cell.
RowDate(i) == ResolveDate(DateText(LastDateRow(i)), today).date

RowTimeText(i) == IF LastTimeRow(i) = 0 THEN NoneText ELSE TimeText(LastTimeRow(i))

\* C1: a row without a date cell text gets the date of the most recent earlier
\* row that had one, and a row without a time cell text gets the time of the
\* most recent earlier row of the same day that had one: every event is the
\* one built from that date and that time text.
CarryOver ==
    \A i \in 1..Len(events) :
        LastDateRow(i) > 0 =>
            LET dt == BuildDatetime(RowDate(i), RowTimeText(i))
            IN  /\ events[i].date = dt.date
                /\ events[i].is_all_day = dt.is_all_day
                /\ (DateText(i) = NoneText /\ TimeText(i) = NoneText /\ i > 1)
                      => /\ events[i].date = events[i - 1].date
                         /\ events[i].is_all_day = events[i - 1].is_all_day

\* rows [D1, T1], [no date, no time], [no date, T2]: D1 T1, D1 T1, D1 T2
CarryOverWitness ==
    /\ Len(events) = 3
    /\ today = Date(2025, 12, 30)
    /\ DateText(1) = <<"W", "e", "d", " ", "D", "e", "c", " ", "3", "1">>
    /\ TimeText(1) = <<"1", "1", ":", "3", "0", "p", "m">>
    /\ DateText(2) = NoneText /\ TimeText(2) = NoneText
    /\ DateText(3) = NoneText /\ TimeText(3) = <<"1", "2", ":", "3", "0", "a", "m">>
    /\ events[1].date = Ordinal(Date(2025, 12, 31)) * 1440 + 22 * 60 + 30
    /\ events[2].date = events[1].date
    /\ events[3].date = Ordinal(Date(2025, 12, 31)) * 1440 - 30
    /\ \A i \in 1..3 : ~events[i].is_all_day

\* C2: a row with a date cell text and no time cell text is an all-day event at
\* midnight UTC of its own date, whatever the rows before it were.
DayReset ==
    \A i \in 1..Len(events) :
        (DateText(i) # NoneText /\ TimeText(i) = NoneText) =>
            /\ events[i].is_all_day
            /\ InstantDay(events[i].date) = Ordinal(ResolveDate(DateText(i), today).date)
            /\ InstantMinute(events[i].date) = 0

\* rows [D1, T1], [D2, no time]: the second event is all-day
DayResetWitness ==
    /\ Len(events) >= 2
    /\ DateText(1) # NoneText /\ ParseTime(TimeText(1)).ok /\ ~events[1].is_all_day
    /\ DateText(2) # NoneText /\ DateText(2) # DateText(1) /\ TimeText(2) = NoneText
    /\ events[2].is_all_day

\* The rows walked so far whose date cell text does not resolve.
BadDateRows ==
    { i \in 1..Len(rows) :
        DateText(i) # NoneText /\ ResolveDate(DateText(i), today).status = "ValueError" }

\* C6: a date cell that does not parse drops its own row only; the scan goes on
\* and returns the events of all the other rows.
DateFailureIsRowScoped ==
    /\ ~raised
    /\ Len(events) = Len(rows) - Cardinality(BadDateRows)


-----------------------------------------------------------------------------
(* SpecTime: the first row of a table, for every date of the year and a *)
(* range of time cell texts                                              *)

\* Time cell texts, each with the minute of the day it denotes as a 12-hour
\* clock time ("H:MMam", "H:MM am"), -1 when it is no clock time.
TimeVectors ==
    <<
      [text |-> <<>>, minute |-> -1],
      [text |-> <<" ">>, minute |-> -1],
      [text |-> <<"A", "l", "l", " ", "D", "a", "y">>, minute |-> -1],
      [text |-> <<"a", "l", "l", " ", "d", "a", "y">>, minute |-> -1],
      [text |-> <<"A", "L", "L", " ", "D", "A", "Y">>, minute |-> -1],
      [text |-> <<"T", "e", "n", "t", "a", "t", "i", "v", "e">>, minute |-> -1],
      [text |-> <<"T", "E", "N", "T", "A", "T", "I", "V", "E">>, minute |-> -1],
      [text |-> <<"D", "a", "y", " ", "1">>, minute |-> -1],
      [text |-> <<"8", ":", "3", "0">>, minute |-> -1],
      [text |-> <<"8", ":", "3", "0", "a">>, minute |-> -1],
      [text |-> <<"1", "3", ":", "0", "0", "p", "m">>, minute |-> -1],
      [text |-> <<"0", ":", "3", "0", "a", "m">>, minute |-> -1],
      [text |-> <<"8", ":", "6", "0", "a", "m">>, minute |-> -1],
      [text |-> <<"0", "0", "8", ":", "3", "0", "a", "m">>, minute |-> -1],
      [text |-> <<"8", " ", ":", "3", "0", "a", "m">>, minute |-> -1],
      [text |-> <<"1", ":", "0", "0", ":", "0", "0", "a", "m">>, minute |-> -1],
      [text |-> <<"8", ":", "3", "0", "a", "m">>, minute |-> 510],
      [text |-> <<"8", ":", "3", "0", " ", "a", "m">>, minute |-> 510],
      [text |-> <<"8", ":", "3", "0", " ", " ", "A", "M">>, minute |-> 510],
      [text |-> <<"0", "8", ":", "3", "0", "a", "m">>, minute |-> 510],
      [text |-> <<"8", ":", "5", "a", "m">>, minute |-> 485],
      [text |-> <<"1", "2", ":", "0", "0", "a", "m">>, minute |-> 0],
      [text |-> <<"1", "2", ":", "3", "0", "a", "m">>, minute |-> 30],
      [text |-> <<"1", ":", "3", "0", "a", "m">>, minute |-> 90],
      [text |-> <<"2", ":", "3", "0", "a", "m">>, minute |-> 150],
      [text |-> <<"3", ":", "0", "0", "a", "m">>, minute |-> 180],
      [text |-> <<"1", "2", ":", "0", "0", "p", "m">>, minute |-> 720],
      [text |-> <<"1", "2", ":", "3", "0", " ", "P", "M">>, minute |-> 750],
      [text |-> <<"1", "1", ":", "3", "0", "p", "m">>, minute |-> 1410],
      [text |-> <<"1", "1", ":", "5", "9", "P", "M">>, minute |-> 1439],
      [text |-> <<" ", "9", ":", "1", "5", "p", "m", " ">>, minute |-> 1275]
    >>

WideTimeCells == { <<>> } \cup { <<TimeVectors[i].text>> : i \in DOMAIN TimeVectors }

WideDateCells ==
    { <<DateCell(m, d)>> : m \in 1..12, d \in 1..31 } \cap
    { <<DateCell(md[1], md[2])>> : md \in { x \in (1..12) \X (1..31) : IsValidDate(1900, x[1], x[2]) } }

WideRowSamples ==
    { [date_td |-> d, time_td |-> t,
       cur_td |-> << <<"E", "U", "R">> >>,
       imp_td |-> << << << <<"icon">>, <<"icon", "", "ff", "impact", "yel">> >> >> >>,
       title_spans |-> << <<"G", "D", "P">> >>,
       actual_td |-> <<>>,
       forecast_td |-> <<>>,
       previous_td |-> <<>>] : d \in WideDateCells, t \in WideTimeCells }

TimeTodays == { Date(2025, 10, 1), Date(2024, 6, 15) }

InitTime ==
    /\ today \in TimeTodays
    /\ rows = <<>>
    /\ current_date = NoneDate
    /\ current_time_str = NoneText
    /\ events = <<>>
    /\ raised = FALSE
    /\ DateIdle
    /\ StoreIdle
    /\ PageIdle
    /\ EarnIdle
    /\ RunsIdle

ScanFirstRow == ScanFrom(WideRowSamples, 1)

TimeNext == ScanFirstRow

SpecTime == InitTime /\ [][TimeNext]_vars

-----------------------------------------------------------------------------
(* Properties of the time and timezone resolution (SpecTime) *)

\* The minute of the day the time cell text of row i denotes, -1 when none.
ClockMinute(i) ==
    IF rows[i].time_td = <<>> THEN -1
    ELSE (CHOOSE v \in { TimeVectors[j] : j \in DOMAIN TimeVectors } :
             v.text = rows[i].time_td[1]).minute

\* C4: a row with a date whose effective time text is empty, is a sentinel
\* ("All Day", "Tentative", any case) or is no 12-hour clock time is kept as an
\* all-day event at 00:00 UTC of its date; a clock time gives is_all_day = FALSE.
AllDayResolution ==
    /\ ~raised
    /\ Len(events) = Len(rows)
    /\ \A i \in 1..Len(events) :
          LastDateRow(i) = i =>
              IF ClockMinute(i) = -1
              THEN /\ events[i].is_all_day
                   /\ events[i].date = Ordinal(RowDate(i)) * 1440
              ELSE /\ ~events[i].is_all_day
                   /\ events[i].date # NoneInstant

AllDayResolutionWitness ==
    /\ Len(events) = 1
    /\ rows[1].time_td = << <<"1", "3", ":", "0", "0", "p", "m">> >>
    /\ RowDate(1) = Date(2025, 7, 4)
    /\ events[1].is_all_day
    /\ events[1].date = Ordinal(Date(2025, 7, 4)) * 1440

\* The last Sundays of March and of October, 2023 to 2026.
SummerTime ==
    [y \in 2023..2026 |->
        CASE y = 2023 -> [begin |-> Date(2023, 3, 26), finish |-> Date(2023, 10, 29)]
          [] y = 2024 -> [begin |-> Date(2024, 3, 31), finish |-> Date(2024, 10, 27)]
          [] y = 2025 -> [begin |-> Date(2025, 3, 30), finish |-> Date(2025, 10, 26)]
          [] y = 2026 -> [begin |-> Date(2026, 3, 29), finish |-> Date(2026, 10, 25)]]

\* The UTC offset, in hours, of Central European time at wall time (d, minute):
\* 2 from 03:00 of the day summer time begins up to 03:00 of the day it ends.
OffsetHours(d, minute) ==
    LET st == SummerTime[d.year]
        after == Ordinal(d) > Ordinal(st.begin) \/ (d = st.begin /\ minute >= 180)
        before == Ordinal(d) < Ordinal(st.finish) \/ (d = st.finish /\ minute < 180)
    IN  IF after /\ before THEN 2 ELSE 1

\* C5: an event with a clock time t on date D is at (D, t) minus the UTC offset
\* k of Central European time (1 hour, 2 hours in summer time): 11:30pm is
\* 22:30 UTC (k = 1) or 21:30 UTC (k = 2) of D, and a time earlier than k hours
\* after midnight is on the UTC day D - 1.
TimezoneConversion ==
    \A i \in 1..Len(events) :
        (LastDateRow(i) = i /\ ClockMinute(i) # -1) =>
            LET t == ClockMinute(i)
                day == Ordinal(RowDate(i))
                k == OffsetHours(RowDate(i), t)
            IN  /\ events[i].date = day * 1440 + t - 60 * k
                /\ RowDate(i).month \in 4..9 => k = 2
                /\ RowDate(i).month \in {11, 12, 1, 2} => k = 1
                /\ t = 1410 => /\ InstantDay(events[i].date) = day
                               /\ InstantMinute(events[i].date) = IF k = 1 THEN 1350 ELSE 1290
                /\ t < 60 * k => InstantDay(events[i].date) = day - 1
                /\ t >= 60 * k => InstantDay(events[i].date) = day

TimezoneConversionWitness ==
    /\ Len(events) = 1
    /\ RowDate(1) = Date(2025, 7, 4)
    /\ ClockMinute(1) = 90
    /\ InstantDay(events[1].date) = Ordinal(Date(2025, 7, 3))
    /\ InstantMinute(events[1].date) = 23 * 60 + 30


-----------------------------------------------------------------------------
(* The chronological order of the emitted instants (Spec) *)

\* Every event has a date, and the resolved dates of the rows do not decrease.
ResolvedDatesInOrder ==
    /\ Len(events) > 0 => LastDateRow(1) = 1
    /\ \A i, j \in 1..Len(events) :
          i < j => Ordinal(RowDate(i)) <= Ordinal(RowDate(j))

\* A timed event whose Central European time is earlier than the UTC offset.
EarlyTimed(i) ==
    LET t == ParseTime(RowTimeText(i))
    IN  t.ok /\ t.minute < CetOffset(RowDate(i), t.minute)

\* C10 as stated: over a table in chronological order the UTC date of the
\* emitted instants never decreases in document order.
InstantDatesMonotone ==
    ResolvedDatesInOrder =>
        \A i, j \in 1..Len(events) :
            i < j => InstantDay(events[i].date) <= InstantDay(events[j].date)

\* C10 as amended: the UTC date of an event is its row's date, or the day before
\* exactly when it is a timed event earlier than the UTC offset after midnight;
\* over resolved dates in order the UTC date never drops by more than one day,
\* and it does not decrease over the events that are not such early ones.
InstantDatesWithinOneDay ==
    ResolvedDatesInOrder =>
        /\ \A i \in 1..Len(events) :
              InstantDay(events[i].date) =
                  Ordinal(RowDate(i)) - (IF EarlyTimed(i) THEN 1 ELSE 0)
        /\ \A i, j \in 1..Len(events) :
              i < j => /\ InstantDay(events[j].date) >= InstantDay(events[i].date) - 1
                       /\ (~EarlyTimed(i) /\ ~EarlyTimed(j))
                             => InstantDay(events[i].date) <= InstantDay(events[j].date)

\* an all-day event followed, the same day, by a timed event at 12:30am
InstantDatesWitness ==
    /\ Len(events) >= 2
    /\ ResolvedDatesInOrder
    /\ events[1].is_all_day
    /\ DateText(2) = NoneText
    /\ EarlyTimed(2)
    /\ InstantDay(events[2].date) = InstantDay(events[1].date) - 1


-----------------------------------------------------------------------------
(* SpecStore: write_economics_calendar and sync_economics_calendar on the table *)

MaxOps == 2

StoreToday == Date(2025, 12, 30)

StoreDays == { Ordinal(Date(2025, 12, 30)), Ordinal(Date(2025, 12, 31)) }

\* event dicts as a caller of write_economics_calendar may pass them; a key
\* that is absent reads as None
Ev(name, time, actual, forecast) ==
    [event |-> name, time |-> time, actual |-> actual, forecast |-> forecast]

CPI == <<"C", "P", "I">>

GDP == <<"G", "D", "P">>

WriteEventSamples ==
    { Ev(CPI, Null, Null, Null),
      Ev(CPI, Null, <<"1">>, Null),
      Ev(CPI, Null, <<"2">>, Null),
      Ev(CPI, Null, Null, <<"3">>),
      Ev(CPI, <<"9">>, Null, Null),
      Ev(CPI, Null, <<"1">>, <<"3">>),
      Ev(GDP, Null, Null, Null),
      Ev(GDP, Null, <<"1">>, Null),
      Ev(Null, Null, <<"1">>, Null) }

\* data: the items [day, events] of the dict, in insertion order
WriteDataSamples ==
    { <<>> } \cup
    { << [day |-> d, events |-> <<ev>>] >> : d \in StoreDays, ev \in WriteEventSamples } \cup
    { << [day |-> Ordinal(Date(2025, 12, 31)), events |-> evs] >> :
         evs \in { << Ev(CPI, Null, <<"1">>, Null), Ev(CPI, Null, Null, <<"3">>) >>,
                   << Ev(Null, Null, <<"1">>, Null), Ev(GDP, Null, <<"1">>, Null) >>,
                   << Ev(CPI, Null, <<"2">>, Null), Ev(GDP, Null, Null, Null) >> } } \cup
    { << [day |-> Ordinal(Date(2025, 12, 30)), events |-> << Ev(CPI, Null, <<"1">>, Null) >>],
         [day |-> Ordinal(Date(2025, 12, 31)), events |-> << Ev(CPI, Null, Null, <<"3">>) >>] >> }

SyncRow(d, t, title, actual) ==
    [date_td |-> d, time_td |-> t,
     cur_td |-> << <<"U", "S", "D">> >>,
     imp_td |-> <<>>,
     title_spans |-> << title >>,
     actual_td |-> actual,
     forecast_td |-> <<>>,
     previous_td |-> <<>>]

SyncRowSamples ==
    { SyncRow(<< <<"W", "e", "d", " ", "D", "e", "c", " ", "3", "1">> >>,
              << <<"A", "l", "l", " ", "D", "a", "y">> >>, CPI, << <<" ">> >>),
      SyncRow(<<>>, << <<"1", "1", ":", "3", "0", "p", "m">> >>, CPI, << <<"1">> >>),
      SyncRow(<< <<"T", "h", "u", " ", "J", "a", "n", " ", "1">> >>,
              << <<"1", "2", ":", "3", "0", "a", "m">> >>, GDP, <<>>),
      SyncRow(<< <<"T", "o", "d", "a", "y">> >>, <<>>, GDP, <<>>) }

SyncTableSamples ==
    { <<>> } \cup { <<r>> : r \in SyncRowSamples } \cup
    { <<r1, r2>> : r1 \in SyncRowSamples, r2 \in SyncRowSamples }

OneRowTable ==
    << SyncRow(<< <<"W", "e", "d", " ", "D", "e", "c", " ", "3", "1">> >>,
               <<>>, GDP, << <<"2">> >>) >>

\* rows of Jan 1 at 12:30am, then 11:30pm, then 12:30am under a new date cell
ThreeRowTable ==
    << SyncRow(<< <<"T", "h", "u", " ", "J", "a", "n", " ", "1">> >>,
               << <<"1", "2", ":", "3", "0", "a", "m">> >>, GDP, <<>>),
       SyncRow(<<>>, << <<"1", "1", ":", "3", "0", "p", "m">> >>, CPI, << <<"1">> >>),
       SyncRow(<< <<"T", "h", "u", " ", "J", "a", "n", " ", "1">> >>,
               << <<"1", "2", ":", "3", "0", "a", "m">> >>, GDP, << <<"2">> >>) >>

\* what curl.get does or returns
FetchSamples ==
    { [raises |-> FALSE, status |-> 200, tables |-> << ThreeRowTable >>] } \cup
    { [raises |-> TRUE, status |-> 0, tables |-> <<>>],
      [raises |-> FALSE, status |-> 200, tables |-> <<>>],
      [raises |-> FALSE, status |-> 503, tables |-> <<>>],
      [raises |-> FALSE, status |-> 503, tables |-> << OneRowTable >>],
      [raises |-> FALSE, status |-> 200, tables |-> << OneRowTable, OneRowTable >>] } \cup
    { [raises |-> FALSE, status |-> 200, tables |-> <<t>>] : t \in SyncTableSamples }

InitStore ==
    /\ today = StoreToday
    /\ ScanIdle
    /\ DateIdle
    /\ StoreIdle
    /\ PageIdle
    /\ EarnIdle
    /\ RunsIdle

\* queries.py 285-314: a call write_economics_calendar(data); the database fails
\* the statement numbered fail_at, if there is one
WriteEconomicsCall ==
    /\ nops < MaxOps
    /\ \E data \in WriteDataSamples :
          \E fail_at \in 0..WriteEconomicsCalendar(<<>>, data, 0).statements :
              \E w \in {WriteEconomicsCalendar(economics_calendar, data, fail_at)} :
                  /\ economics_calendar' = w.table
                  /\ last_op' = [op |-> "write", data |-> data, fetch |-> NoFetch,
                                 fail_at |-> fail_at,
                                 outcome |-> IF w.raised THEN "error" ELSE "ok",
                                 statements |-> w.statements, raised |-> w.raised]
    /\ nops' = nops + 1
    /\ UNCHANGED <<scanVars, dateVars, pageVars, earnVars, runVars>>

\* fetch_calendars.py 129-147: one cycle of sync_economics_calendar
SyncEconomics ==
    /\ nops < MaxOps
    /\ \E fetch \in FetchSamples, fail_at \in 0..1 :
          \E r \in {SyncEconomicsCalendar(economics_calendar, fetch, fail_at, today)} :
              /\ economics_calendar' = r.table
              /\ last_op' = [op |-> "sync",
                             data |-> IF r.outcome = "ok" THEN r.by_day ELSE <<>>,
                             fetch |-> fetch, fail_at |-> fail_at,
                             outcome |-> r.outcome,
                             statements |-> r.statements, raised |-> r.raised]
    /\ nops' = nops + 1
    /\ UNCHANGED <<scanVars, dateVars, pageVars, earnVars, runVars>>

StoreNext == WriteEconomicsCall \/ SyncEconomics

SpecStore == InitStore /\ [][StoreNext]_vars

-----------------------------------------------------------------------------
(* Properties of the economics sync and of the upsert (SpecStore) *)

\* the fetch raised, answered with another status than 200, or its body has no
\* calendar__table element
FailedFetch(fetch) == fetch.raises \/ fetch.status # 200 \/ fetch.tables = <<>>

\* C7: a cycle of sync_economics_calendar whose fetch raises, returns a non-200
\* status, or returns a document without a calendar table executes no storage
\* statement, raises nothing to its caller, and leaves the stored rows as they
\* were before the cycle.
FailedSyncLeavesStorage ==
    [][(nops' = nops + 1 /\ last_op'.op = "sync" /\ FailedFetch(last_op'.fetch))
          => /\ economics_calendar' = economics_calendar
             /\ last_op'.statements = 0
             /\ ~last_op'.raised
             /\ last_op'.outcome # "ok"]_vars

\* a cycle that got a non-200 answer with a calendar table in its body, the
\* table holding rows already
FailedSyncWitness ==
    /\ last_op.op = "sync"
    /\ last_op.fetch.status = 503
    /\ last_op.fetch.tables # <<>>
    /\ economics_calendar # <<>>

Columns == {"time", "currency", "impact", "actual", "forecast", "previous"}

RECURSIVE Flat(_)
Flat(data) ==
    IF data = <<>> THEN <<>>
    ELSE [i \in 1..Len(Head(data).events) |->
             [day |-> Head(data).day, ev |-> Head(data).events[i]]] \o Flat(Tail(data))

\* the events written for the key (day, name), in the order they are written
Incoming(data, day, name) ==
    SelectSeq(Flat(data), LAMBDA x : x.day = day /\ Get(x.ev, "event") = name)

\* the latest value of column c among them that is not null, null if none
LatestNonNull(inc, c) ==
    LET idx == { i \in 1..Len(inc) : Get(inc[i].ev, c) # Null }
    IN  IF idx = {} THEN Null
        ELSE Get(inc[CHOOSE i \in idx : \A j \in idx : j <= i].ev, c)

KeysOf(table) == { <<table[i].day, table[i].event>> : i \in 1..Len(table) }

WrittenKeys(data) ==
    { <<x.day, Get(x.ev, "event")>> :
         x \in { Flat(data)[i] : i \in { j \in 1..Len(Flat(data)) :
                                            Get(Flat(data)[j].ev, "event") # Null } } }

StoredValue(table, day, name, c) ==
    IF \E i \in 1..Len(table) : table[i].day = day /\ table[i].event = name
    THEN (CHOOSE r \in { table[i] : i \in 1..Len(table) } :
             r.day = day /\ r.event = name)[c]
    ELSE Null

CompletedWrite == nops' = nops + 1 /\ last_op'.outcome = "ok"

\* C8: after a completed write every stored row has its own (day, event) key,
\* the keys are those stored before and those written, and every other column
\* of every row is the latest non-null value written for its key in this write,
\* or, when there is none, the value stored before (null for a new row); so a
\* null never replaces a stored value, and the same write made a second time
\* leaves the table as it is.
NullPreservingUpsert ==
    [][CompletedWrite =>
          /\ \A i, j \in 1..Len(economics_calendar') :
                (/\ economics_calendar'[i].day = economics_calendar'[j].day
                 /\ economics_calendar'[i].event = economics_calendar'[j].event) => i = j
          /\ KeysOf(economics_calendar') =
                KeysOf(economics_calendar) \cup WrittenKeys(last_op'.data)
          /\ \A i \in 1..Len(economics_calendar) :
                /\ economics_calendar'[i].day = economics_calendar[i].day
                /\ economics_calendar'[i].event = economics_calendar[i].event
          /\ \A i \in 1..Len(economics_calendar') : \A c \in Columns :
                LET day == economics_calendar'[i].day
                    name == economics_calendar'[i].event
                    latest == LatestNonNull(Incoming(last_op'.data, day, name), c)
                IN  economics_calendar'[i][c] =
                        IF latest # Null THEN latest
                        ELSE StoredValue(economics_calendar, day, name, c)
          /\ (last_op.outcome = "ok" /\ last_op'.data = last_op.data)
                => economics_calendar' = economics_calendar]_vars

\* a write that brought a forecast and a null actual for a key whose stored
\* actual was not null, and is not null after it
NullPreservingWitness ==
    /\ last_op.outcome = "ok"
    /\ \E i \in 1..Len(economics_calendar) :
          LET inc == Incoming(last_op.data, economics_calendar[i].day,
                              economics_calendar[i].event)
          IN  /\ inc # <<>>
              /\ LatestNonNull(inc, "actual") = Null
              /\ LatestNonNull(inc, "forecast") # Null
              /\ economics_calendar[i].actual # Null
              /\ economics_calendar[i].forecast = LatestNonNull(inc, "forecast")


-----------------------------------------------------------------------------
(* SpecPage: the paging loop of _fetch_earnings_raw *)

\* get_earnings_calendar(limit=100, ...)
PageLimit == 100

\* if len(records) < 100: break
FullPage == 100

\* offset += 100
OffsetStep == 100

MaxPages == 3

PageSizeSamples == {0, 1, 43, 99, 100}

\* a finite feed: the numbers of rows it holds in its successive windows of
\* PageLimit rows, nothing after the last of them
FeedSamples ==
    UNION { [1..n -> PageSizeSamples] : n \in 0..MaxPages }

Min(a, b) == IF a <= b THEN a ELSE b

\* cal.get_earnings_calendar(limit, offset): the number of rows of the frame
\* returned (0 for None or an empty frame)
GetEarningsCalendar(feed, limit, offset) ==
    LET k == (offset \div limit) + 1
    IN  IF k \in 1..Len(feed) THEN Min(limit, feed[k]) ELSE 0

\* the loop left only on an empty page
BreaksOnEmpty(n) == n = 0

\* fetch_calendars.py 63-64 and 83-84: the two breaks of the loop, n being the
\* number of rows of the page
Breaks(n) == n = 0 \/ n < FullPage

InitPage ==
    /\ today = StoreToday
    /\ ScanIdle
    /\ DateIdle
    /\ StoreIdle
    /\ EarnIdle
    /\ RunsIdle
    /\ pg_feed \in FeedSamples
    /\ pg_offset = 0
    /\ pg_requests = <<>>
    /\ pg_sizes = <<>>
    /\ pg_pc = "loop"

\* fetch_calendars.py 58-85: one iteration of the while loop
FetchPage ==
    /\ pg_pc = "loop"
    /\ \E n \in {GetEarningsCalendar(pg_feed, PageLimit, pg_offset)} :
          /\ pg_requests' = Append(pg_requests, pg_offset)
          /\ pg_sizes' = Append(pg_sizes, n)
          /\ pg_pc' = IF Breaks(n) THEN "done" ELSE "loop"
          /\ pg_offset' = IF Breaks(n) THEN pg_offset ELSE pg_offset + OffsetStep
    /\ UNCHANGED <<scanVars, dateVars, storeVars, pg_feed, earnVars, runVars>>

PageNext == FetchPage

\* the loop runs in its own thread and every request returns
SpecPage == InitPage /\ [][PageNext]_vars /\ WF_vars(FetchPage)

\* the position in the feed of its first page shorter than 100 rows, the one
\* after its last page when it has none
FirstShort(feed) ==
    IF \E k \in 1..Len(feed) : feed[k] < 100
    THEN CHOOSE k \in 1..Len(feed) :
            feed[k] < 100 /\ \A j \in 1..(k - 1) : feed[j] >= 100
    ELSE Len(feed) + 1

PagesInOrder ==
    /\ Len(pg_requests) = Len(pg_sizes)
    /\ \A k \in 1..Len(pg_requests) : pg_requests[k] = 100 * (k - 1)
    /\ \A k \in 1..Len(pg_sizes) :
          pg_sizes[k] = (IF k <= Len(pg_feed) THEN pg_feed[k] ELSE 0)
    /\ \A k \in 1..(Len(pg_sizes) - 1) : pg_sizes[k] = 100
    /\ Len(pg_requests) <= FirstShort(pg_feed)
    /\ pg_pc = "done" <=> (pg_sizes # <<>> /\ pg_sizes[Len(pg_sizes)] < 100)
    /\ pg_pc = "done" => Len(pg_requests) = FirstShort(pg_feed)
    /\ (pg_pc = "done" /\ pg_feed = <<100, 100, 43>>) => pg_requests = <<0, 100, 200>>

\* C9: the pages are requested at the offsets 0, 100, 200, ... with limit 100,
\* every page before the last requested one is full, the loop is over exactly
\* when the last page it got is shorter than 100 rows or empty, so that the
\* requests made are those up to the first such page and no more (three of them
\* for the pages 100, 100, 43), and on every finite feed the loop ends.
PaginationTerminates == [](PagesInOrder) /\ <>(pg_pc = "done")

\* the loop over after the pages 100, 100, 43
PaginationWitness ==
    /\ pg_pc = "done"
    /\ pg_feed = <<100, 100, 43>>
    /\ pg_sizes = <<100, 100, 43>>
    /\ pg_requests = <<0, 100, 200>>


-----------------------------------------------------------------------------
(* The instant of every emitted event (Spec) *)

\* C11: every event parse_economic_calendar has emitted carries an instant:
\* the 'date' field of no event is None.
EveryInstantPresent ==
    \A i \in 1..Len(events) : events[i].date # NoneInstant


-----------------------------------------------------------------------------
(* SpecSync: POST /admin/sync requests, each running sync_all_calendars *)

MaxTriggers == 2

Requests == 1..MaxTriggers

\* the exception is raised out of the function
ExceptNothing(exc) == exc

\* fetch_calendars.py 100-101 and 146-147: except Exception: log.error(...);
\* whether an exception raised in the try block (exc) leaves the function
ExceptException(exc) == FALSE

EarnItem(symbol, dt, eps) == [symbol |-> symbol, date |-> dt, reported_eps |-> eps]

AAPL == <<"A", "A", "P", "L">>

MSFT == <<"M", "S", "F", "T">>

\* an instant of a day: 21:00 UTC
Evening(d) == Ordinal(d) * 1440 + 1260

\* what _fetch_earnings_raw does: it raises, or returns the items by day and
\* company
EarningsFetchSamples ==
    { [raised |-> TRUE, data |-> <<>>],
      [raised |-> FALSE, data |-> <<>>],
      [raised |-> FALSE,
       data |-> << [day |-> Ordinal(Date(2025, 12, 30)),
                    companies |-> << [company |-> AAPL,
                                      items |-> << EarnItem(AAPL, Evening(Date(2025, 12, 30)),
                                                            <<"2">>) >>] >>] >>] }

SyncFetchSamples ==
    { [raises |-> TRUE, status |-> 0, tables |-> <<>>],
      [raises |-> FALSE, status |-> 503, tables |-> << OneRowTable >>],
      [raises |-> FALSE, status |-> 200, tables |-> << <<>> >>],
      [raises |-> FALSE, status |-> 200, tables |-> << OneRowTable >>] }

NoRun == [pc |-> "idle", data |-> <<>>, earnings |-> "none", economics |-> "none",
          raised |-> FALSE]

InitSync ==
    /\ today = StoreToday
    /\ ScanIdle
    /\ DateIdle
    /\ StoreIdle
    /\ PageIdle
    /\ EarnIdle
    /\ runs = [r \in Requests |-> NoRun]

syncFrame == <<scanVars, dateVars, last_op, nops, pageVars, earn_op>>

\* admin.py 36-38: a request arrives and its handler awaits sync_all_stocks()
TriggerSync(r) ==
    /\ runs[r].pc = "idle"
    /\ runs' = [runs EXCEPT ![r].pc = "stocks"]
    /\ UNCHANGED <<syncFrame, economics_calendar, earnings_calendar>>

\* admin.py 38-39: sync_all_stocks() returns and sync_all_calendars() starts
\* with sync_earnings_calendar() awaiting its fetch, or it raises and the
\* request fails
StocksSynced(r) ==
    /\ runs[r].pc = "stocks"
    /\ \E ok \in BOOLEAN :
          runs' = [runs EXCEPT ![r].pc = IF ok THEN "earnings_fetch" ELSE "failed"]
    /\ UNCHANGED <<syncFrame, economics_calendar, earnings_calendar>>

\* the run r leaving sync_earnings_calendar() with an outcome: an exception
\* that leaves it leaves sync_all_calendars() and the handler too; otherwise
\* sync_economics_calendar() starts and awaits its fetch (fetch_calendars.py
\* 151-152)
EarningsEnds(r, outcome, exc) ==
    IF ExceptException(exc)
    THEN [runs EXCEPT ![r].pc = "failed", ![r].data = <<>>, ![r].earnings = outcome,
                      ![r].raised = TRUE]
    ELSE [runs EXCEPT ![r].pc = "economics_fetch", ![r].data = <<>>,
                      ![r].earnings = outcome]

\* fetch_calendars.py 91-95: the fetch of the earnings ends
EarningsFetched(r) ==
    /\ runs[r].pc = "earnings_fetch"
    /\ \E got \in EarningsFetchSamples :
          runs' = IF got.raised THEN EarningsEnds(r, "fetch_error", TRUE)
                  ELSE IF got.data = <<>> THEN EarningsEnds(r, "empty", FALSE)
                  ELSE [runs EXCEPT ![r].pc = "earnings_write", ![r].data = got.data]
    /\ UNCHANGED <<syncFrame, economics_calendar, earnings_calendar>>

\* fetch_calendars.py 97-101: the write of the earnings ends
EarningsWritten(r) ==
    /\ runs[r].pc = "earnings_write"
    /\ \E fail_at \in 0..1 :
          \E w \in {WriteEarningsCalendar(earnings_calendar, runs[r].data, fail_at)} :
              /\ earnings_calendar' = w.table
              /\ runs' = IF w.raised THEN EarningsEnds(r, "write_error", TRUE)
                         ELSE EarningsEnds(r, "ok", FALSE)
    /\ UNCHANGED <<syncFrame, economics_calendar>>

\* the run r leaving sync_economics_calendar(), and with it
\* sync_all_calendars() and the handler
EconomicsEnds(r, outcome, exc) ==
    IF ExceptException(exc)
    THEN [runs EXCEPT ![r].pc = "failed", ![r].data = <<>>, ![r].economics = outcome,
                      ![r].raised = TRUE]
    ELSE [runs EXCEPT ![r].pc = "done", ![r].data = <<>>, ![r].economics = outcome]

\* fetch_calendars.py 132-135: the fetch of the economics ends
EconomicsFetched(r) ==
    /\ runs[r].pc = "economics_fetch"
    /\ \E fetch \in SyncFetchSamples :
          \E got \in {FetchEconomicsRaw(fetch, today)} :
              runs' = IF got.raised THEN EconomicsEnds(r, "fetch_error", TRUE)
                      ELSE IF got.events = <<>> THEN EconomicsEnds(r, "empty", FALSE)
                      ELSE [runs EXCEPT ![r].pc = "economics_write", ![r].data = got]
    /\ UNCHANGED <<syncFrame, economics_calendar, earnings_calendar>>

\* fetch_calendars.py 137-147: the write of the economics ends
EconomicsWritten(r) ==
    /\ runs[r].pc = "economics_write"
    /\ \E fail_at \in 0..1 :
          \E w \in {SyncFetched(economics_calendar, runs[r].data, fail_at)} :
              /\ economics_calendar' = w.table
              /\ runs' = IF w.outcome = "error" THEN EconomicsEnds(r, "write_error", TRUE)
                         ELSE EconomicsEnds(r, "ok", FALSE)
    /\ UNCHANGED <<syncFrame, earnings_calendar>>

SyncNext ==
    \E r \in Requests :
        \/ TriggerSync(r)
        \/ StocksSynced(r)
        \/ EarningsFetched(r)
        \/ EarningsWritten(r)
        \/ EconomicsFetched(r)
        \/ EconomicsWritten(r)

SpecSync == InitSync /\ [][SyncNext]_vars

InEarningsSync(run) == run.pc \in {"earnings_fetch", "earnings_write"}

InEconomicsSync(run) == run.pc \in {"economics_fetch", "economics_write"}

\* C12: no two requests are inside sync_earnings_calendar at the same time, nor
\* inside sync_economics_calendar: a second trigger waits for, or is merged
\* into, the run in flight.
OneRunInFlight ==
    \A r1, r2 \in Requests :
        r1 # r2 => /\ ~(InEarningsSync(runs[r1]) /\ InEarningsSync(runs[r2]))
                   /\ ~(InEconomicsSync(runs[r1]) /\ InEconomicsSync(runs[r2]))


EarningsOutcomes == {"fetch_error", "empty", "write_error", "ok"}

\* C17: a request leaves sync_earnings_calendar, whatever its outcome (the
\* fetch raised, nothing was fetched, the write failed, or all went well), by
\* entering sync_economics_calendar; it is inside the economics sync only with
\* the earnings sync over and inside the earnings sync only with the economics
\* sync not begun; and nothing is ever raised out of sync_all_calendars, which
\* ends when the economics sync ends.
SyncIsolation ==
    [][\A r \in Requests :
          /\ (InEarningsSync(runs[r]) /\ ~InEarningsSync(runs'[r]))
                => /\ runs'[r].pc = "economics_fetch"
                   /\ runs'[r].earnings \in EarningsOutcomes
          /\ InEconomicsSync(runs'[r])
                => runs'[r].earnings \in EarningsOutcomes /\ runs'[r].economics = "none"
          /\ InEarningsSync(runs'[r])
                => runs'[r].earnings = "none" /\ runs'[r].economics = "none"
          /\ (InEconomicsSync(runs[r]) /\ ~InEconomicsSync(runs'[r]))
                => runs'[r].pc = "done" /\ runs'[r].economics \in EarningsOutcomes
          /\ ~runs'[r].raised
          /\ runs'[r].pc = "failed" => runs'[r].earnings = "none"]_vars

\* one request whose earnings fetch raised and one whose earnings write
\* failed, both through their economics sync
SyncIsolationWitness ==
    \E r1, r2 \in Requests :
        /\ runs[r1].earnings = "fetch_error"
        /\ runs[r2].earnings = "write_error"
        /\ runs[r1].pc = "done"
        /\ runs[r2].pc = "done"
        /\ runs[r2].economics = "ok"


-----------------------------------------------------------------------------
(* A failing statement in a batch (SpecStore) *)

\* the events of a batch that are written, those with a title, in order
NamedEvents(data) ==
    SelectSeq(Flat(data), LAMBDA x : Get(x.ev, "event") # Null)

\* C13: when the statement of one event of a write_economics_calendar batch
\* fails, the failure reaches the caller and every event of the batch with
\* another (day, event) key is stored all the same.
PerEntityWrites ==
    [][(nops' = nops + 1 /\ last_op'.op = "write" /\ last_op'.fail_at > 0)
          => /\ last_op'.raised
             /\ \A i \in 1..Len(NamedEvents(last_op'.data)) :
                   LET bad == NamedEvents(last_op'.data)[last_op'.fail_at]
                       x == NamedEvents(last_op'.data)[i]
                   IN  (x.day # bad.day \/ x.ev.event # bad.ev.event)
                          => <<x.day, x.ev.event>> \in KeysOf(economics_calendar')]_vars


-----------------------------------------------------------------------------
(* SpecEarn: write_earnings_calendar and read_earnings_calendar on the table *)

\* date.fromordinal(n)
FromOrdinal(n) ==
    LET y0 == ((n * 400) \div 146097) + 1
        y == IF DaysBeforeYear(y0) >= n THEN y0 - 1
             ELSE IF DaysBeforeYear(y0 + 1) < n THEN y0 + 1 ELSE y0
        rest == n - DaysBeforeYear(y)
        m == CHOOSE k \in 1..12 :
                 /\ DaysBeforeMonth(y, k) < rest
                 /\ rest <= DaysBeforeMonth(y, k) + DaysInMonth(y, k)
    IN  Date(y, m, rest - DaysBeforeMonth(y, m))

TwoDigits(n) == <<Digits[(n \div 10) + 1], Digits[(n % 10) + 1]>>

\* datetime.isoformat() of an instant with no seconds: YYYY-MM-DDTHH:MM:00,
\* without the offset the column type adds
IsoFormat(instant) ==
    LET d == FromOrdinal(InstantDay(instant))
        minute == InstantMinute(instant)
    IN  TwoDigits(d.year \div 100) \o TwoDigits(d.year % 100) \o <<"-">> \o
        TwoDigits(d.month) \o <<"-">> \o TwoDigits(d.day) \o <<"T">> \o
        TwoDigits(minute \div 60) \o <<":">> \o TwoDigits(minute % 60) \o
        <<":", "0", "0">>

\* queries.py 185-197: the ids of the rows the WHERE clause keeps, a bound
\* that is None adding no clause
Selected(table, start, end) ==
    { i \in 1..Len(table) :
         /\ (start # NoneDay => table[i].day >= start)
         /\ (end # NoneDay => table[i].day <= end) }

\* the rows in the order of ORDER BY day, id
RECURSIVE OrderByDayId(_, _)
OrderByDayId(table, ids) ==
    IF ids = {} THEN <<>>
    ELSE LET first == CHOOSE i \in ids : \A j \in ids :
                         \/ table[i].day < table[j].day
                         \/ (table[i].day = table[j].day /\ i <= j)
         IN  <<table[first]>> \o OrderByDayId(table, ids \ {first})

\* queries.py 196: ORDER BY day DESC, id
RECURSIVE OrderByDayDescId(_, _)
OrderByDayDescId(table, ids) ==
    IF ids = {} THEN <<>>
    ELSE LET first == CHOOSE i \in ids : \A j \in ids :
                         \/ table[i].day > table[j].day
                         \/ (table[i].day = table[j].day /\ i <= j)
         IN  <<table[first]>> \o OrderByDayDescId(table, ids \ {first})

\* queries.py 203-213: the item of a row
EarningsItem(r) ==
    [symbol |-> r.symbol,
     marketcap |-> r.marketcap,
     event_name |-> r.event_name,
     date |-> IF r.date # NoneInstant THEN IsoFormat(r.date) ELSE Null,
     timing |-> r.timing,
     eps_estimate |-> r.eps_estimate,
     reported_eps |-> r.reported_eps,
     surprise_pct |-> r.surprise_pct]

\* companies.setdefault(company, []).append(item)
AppendToCompany(companies, company, item) ==
    IF \E i \in 1..Len(companies) : companies[i].company = company
    THEN [i \in 1..Len(companies) |->
             IF companies[i].company = company
             THEN [companies[i] EXCEPT !.items = Append(@, item)]
             ELSE companies[i]]
    ELSE Append(companies, [company |-> company, items |-> <<item>>])

\* queries.py 214: result.setdefault(day, {}).setdefault(company, []).append(item)
AppendToDay(result, day, company, item) ==
    IF \E i \in 1..Len(result) : result[i].day = day
    THEN [i \in 1..Len(result) |->
             IF result[i].day = day
             THEN [result[i] EXCEPT !.companies = AppendToCompany(@, company, item)]
             ELSE result[i]]
    ELSE Append(result, [day |-> day,
                         companies |-> << [company |-> company, items |-> <<item>>] >>])

\* queries.py 200-214: the loop over the fetched rows
RECURSIVE GroupRows(_, _)
GroupRows(rws, result) ==
    IF rws = <<>> THEN result
    ELSE GroupRows(Tail(rws),
                   AppendToDay(result, Head(rws).day,
                               IF Head(rws).company # Null THEN Head(rws).company
                               ELSE Head(rws).symbol,
                               EarningsItem(Head(rws))))

\* read_earnings_calendar(start, end): the dict as the sequence of its items
\* [day, companies] in insertion order, companies likewise
ReadEarningsCalendar(table, start, end) ==
    GroupRows(OrderByDayDescId(table, Selected(table, start, end)), <<>>)


EarnDays == { Ordinal(Date(2025, 12, 30)), Ordinal(Date(2025, 12, 31)) }

OneCompany(day, company, item) ==
    [day |-> day, companies |-> << [company |-> company, items |-> <<item>>] >>]

\* data: the items [day, companies] of the dict in insertion order, companies
\* the items [company, items] of the inner dict
WriteEarningsSamples ==
    { << OneCompany(Ordinal(Date(2025, 12, 30)), AAPL,
                    EarnItem(AAPL, Evening(Date(2025, 12, 30)), Null)) >>,
      << OneCompany(Ordinal(Date(2025, 12, 30)), AAPL,
                    EarnItem(AAPL, Evening(Date(2025, 12, 30)), <<"2">>)) >>,
      << OneCompany(Ordinal(Date(2025, 12, 31)), AAPL,
                    EarnItem(AAPL, Evening(Date(2025, 12, 30)), Null)) >>,
      << OneCompany(Ordinal(Date(2025, 12, 31)), Null,
                    EarnItem(MSFT, NoneInstant, <<"n", "/", "a">>)) >>,
      << OneCompany(Ordinal(Date(2025, 12, 31)), MSFT,
                    EarnItem(MSFT, Evening(Date(2025, 12, 31)), <<"1">>)),
         [day |-> Ordinal(Date(2025, 12, 30)),
          companies |-> << [company |-> AAPL,
                            items |-> << EarnItem(AAPL, Evening(Date(2025, 12, 30)), Null),
                                         EarnItem(AAPL, Evening(Date(2025, 12, 29)), <<"3">>) >>],
                           [company |-> MSFT,
                            items |-> << EarnItem(MSFT, Evening(Date(2025, 12, 30)), Null) >>] >>] >> }

InitEarn ==
    /\ today = StoreToday
    /\ ScanIdle
    /\ DateIdle
    /\ StoreIdle
    /\ PageIdle
    /\ EarnIdle
    /\ RunsIdle

\* queries.py 218-249: a call write_earnings_calendar(data); the database fails
\* the statement numbered fail_at, if there is one
WriteEarningsCall ==
    /\ nops < MaxOps
    /\ \E data \in WriteEarningsSamples, fail_at \in 0..1 :
          \E w \in {WriteEarningsCalendar(earnings_calendar, data, fail_at)} :
              /\ earnings_calendar' = w.table
              /\ earn_op' = [op |-> "write", data |-> data, fail_at |-> fail_at,
                             start |-> NoneDay, end |-> NoneDay,
                             outcome |-> IF w.raised THEN "error" ELSE "ok",
                             result |-> <<>>]
    /\ nops' = nops + 1
    /\ UNCHANGED <<scanVars, dateVars, economics_calendar, last_op, pageVars, runVars>>

\* queries.py 182-215: a call read_earnings_calendar(start, end)
ReadEarningsCall ==
    /\ nops < MaxOps
    /\ \E start \in EarnDays \cup {NoneDay}, end \in EarnDays \cup {NoneDay} :
          earn_op' = [op |-> "read", data |-> <<>>, fail_at |-> 0,
                      start |-> start, end |-> end, outcome |-> "ok",
                      result |-> ReadEarningsCalendar(earnings_calendar, start, end)]
    /\ nops' = nops + 1
    /\ UNCHANGED <<scanVars, dateVars, economics_calendar, last_op, pageVars, runVars,
                   earnings_calendar>>

EarnNext == WriteEarningsCall \/ ReadEarningsCall

SpecEarn == InitEarn /\ [][EarnNext]_vars

-----------------------------------------------------------------------------
(* The read contract of the earnings table (SpecEarn) *)

InRange(day, start, end) ==
    (start # NoneDay => start <= day) /\ (end # NoneDay => day <= end)

CompanyOf(r) == IF r.company # Null THEN r.company ELSE r.symbol

\* the items of the stored rows of a day and a company, in id order
StoredItems(table, day, company) ==
    LET ids == SelectSeq([i \in 1..Len(table) |-> i],
                         LAMBDA i : table[i].day = day /\ CompanyOf(table[i]) = company)
    IN  [k \in 1..Len(ids) |-> EarningsItem(table[ids[k]])]

\* what the read returns holds exactly the stored rows of the days in range,
\* each day once, and under each company of a day its rows in id order
ReadsRowsInRange(table, op) ==
    /\ \A i \in 1..Len(table) :
          InRange(table[i].day, op.start, op.end)
             => \E g \in 1..Len(op.result) :
                   /\ op.result[g].day = table[i].day
                   /\ \E c \in 1..Len(op.result[g].companies) :
                         op.result[g].companies[c].company = CompanyOf(table[i])
    /\ \A g, h \in 1..Len(op.result) : op.result[g].day = op.result[h].day => g = h
    /\ \A g \in 1..Len(op.result) :
          /\ InRange(op.result[g].day, op.start, op.end)
          /\ \A c, e \in 1..Len(op.result[g].companies) :
                op.result[g].companies[c].company = op.result[g].companies[e].company
                   => c = e
          /\ \A c \in 1..Len(op.result[g].companies) :
                /\ op.result[g].companies[c].items # <<>>
                /\ op.result[g].companies[c].items =
                      StoredItems(table, op.result[g].day,
                                  op.result[g].companies[c].company)

\* C14 as claimed: read_earnings_calendar(start, end) returns exactly the
\* stored rows with start <= day <= end, a missing bound not bounding, the rows
\* of a day in id order, and the days in ascending order.
ReadEarningsAscending ==
    earn_op.op = "read" =>
        /\ ReadsRowsInRange(earnings_calendar, earn_op)
        /\ \A g, h \in 1..Len(earn_op.result) :
              g < h => earn_op.result[g].day < earn_op.result[h].day


\* C14 as amended: read_earnings_calendar(start, end) returns exactly the
\* stored rows with start <= day <= end, a missing bound not bounding, the rows
\* of a day and a company in id order, and the days in descending order.
ReadEarningsDescending ==
    earn_op.op = "read" =>
        /\ ReadsRowsInRange(earnings_calendar, earn_op)
        /\ \A g, h \in 1..Len(earn_op.result) :
              g < h => earn_op.result[g].day > earn_op.result[h].day

\* a read from a start day on that returns two days, the earlier one, with
\* two rows of one company, after the later one
ReadEarningsWitness ==
    /\ earn_op.op = "read"
    /\ earn_op.start # NoneDay
    /\ Len(earn_op.result) = 2
    /\ \E c \in 1..Len(earn_op.result[2].companies) :
          Len(earn_op.result[2].companies[c].items) = 2


-----------------------------------------------------------------------------
(* The day-keyed mapping of a sync cycle (SpecStore) *)

\* the events _fetch_economics_raw returned in the last cycle
ParsedEvents == FetchEconomicsRaw(last_op.fetch, today).events

\* C15: in a cycle that wrote, the keys of by_day are distinct days, every
\* parsed event with an instant has the UTC day of its instant among them, and
\* the events under a day are exactly the parsed events of that UTC day, each
\* once and in the order of the parsed sequence; events without an instant are
\* under no day.
CalendarAssembly ==
    (last_op.op = "sync" /\ last_op.outcome = "ok") =>
        /\ \A g, h \in 1..Len(last_op.data) :
              last_op.data[g].day = last_op.data[h].day => g = h
        /\ \A i \in 1..Len(ParsedEvents) :
              ParsedEvents[i].date # NoneInstant
                 => \E g \in 1..Len(last_op.data) :
                       last_op.data[g].day = ParsedEvents[i].date \div 1440
        /\ \A g \in 1..Len(last_op.data) :
              /\ last_op.data[g].events # <<>>
              /\ last_op.data[g].events =
                    SelectSeq(ParsedEvents,
                              LAMBDA ev : /\ ev.date # NoneInstant
                                          /\ ev.date \div 1440 = last_op.data[g].day)

\* a cycle whose first and third events fall on one UTC day and whose second
\* event on the next
CalendarAssemblyWitness ==
    /\ last_op.op = "sync"
    /\ last_op.outcome = "ok"
    /\ Len(ParsedEvents) = 3
    /\ Len(last_op.data) = 2
    /\ last_op.data[1].events = <<ParsedEvents[1], ParsedEvents[3]>>
    /\ last_op.data[2].events = <<ParsedEvents[2]>>
    /\ last_op.data[2].day = last_op.data[1].day + 1


-----------------------------------------------------------------------------
(* The time column after a sync cycle (SpecStore) *)

\* the time of day of an instant, as HH:MM
ClockText(instant) ==
    TwoDigits(InstantMinute(instant) \div 60) \o <<":">> \o
    TwoDigits(InstantMinute(instant) % 60)

\* C16: after a cycle that wrote, the row of every parsed event with a title, an
\* instant and a parsed clock time has a time column that is not null and is
\* the time of day of the event.
TimeReachesStorage ==
    (last_op.op = "sync" /\ last_op.outcome = "ok") =>
        \A i \in 1..Len(ParsedEvents) :
            (/\ ParsedEvents[i].date # NoneInstant
             /\ ~ParsedEvents[i].is_all_day
             /\ ParsedEvents[i].event # Null)
               => LET stored == StoredValue(economics_calendar,
                                            ParsedEvents[i].date \div 1440,
                                            ParsedEvents[i].event, "time")
                  IN  stored # Null /\ stored = ClockText(ParsedEvents[i].date)

=============================================================================
